---- MODULE Spec2Model ----
(***************************************************************************)
(* The three comment-triggered Gemini scripts of .github/scripts/python-    *)
(* scripts: gemini_code_review.py, gemini_butler.py, gemini_butler-both.py. *)
(* One run of one script is one behaviour.  Every external operation (the   *)
(* diff GET, the model call, each POST to GitHub) is one action; the Python *)
(* between two external operations belongs to the action that precedes it.  *)
(* calls is the history of external operations of the run.                  *)
(***************************************************************************)
EXTENDS Integers, Sequences, FiniteSets, TLC

(***************************************************************************)
(* Bounds of the input spaces.                                              *)
(***************************************************************************)
\* longest "comments" array the model returns
MaxComments == 2

(***************************************************************************)
(* Python str operations, on TLA+ strings.                                  *)
(***************************************************************************)
Whitespace == {" ", "\n", "\t"}

StartsWith(s, prefix) ==
    /\ Len(s) >= Len(prefix)
    /\ SubSeq(s, 1, Len(prefix)) = prefix

RECURSIVE LStrip(_)
LStrip(s) ==
    IF Len(s) > 0 /\ SubSeq(s, 1, 1) \in Whitespace
    THEN LStrip(SubSeq(s, 2, Len(s)))
    ELSE s

RECURSIVE RStrip(_)
RStrip(s) ==
    IF Len(s) > 0 /\ SubSeq(s, Len(s), Len(s)) \in Whitespace
    THEN RStrip(SubSeq(s, 1, Len(s) - 1))
    ELSE s

\* str.strip()
Strip(s) == RStrip(LStrip(s))

\* str.replace(old, new): every non-overlapping occurrence, left to right
RECURSIVE Replace(_, _, _)
Replace(s, old, new) ==
    IF Len(s) < Len(old) \/ Len(old) = 0 THEN s
    ELSE IF StartsWith(s, old)
         THEN new \o Replace(SubSeq(s, Len(old) + 1, Len(s)), old, new)
         ELSE SubSeq(s, 1, 1) \o Replace(SubSeq(s, 2, Len(s)), old, new)

\* sub in s
Contains(s, sub) ==
    \E i \in 1..(Len(s) + 1) :
        /\ i + Len(sub) - 1 <= Len(s)
        /\ SubSeq(s, i, i + Len(sub) - 1) = sub

(***************************************************************************)
(* A Python local that may not have been assigned: <<>> is unbound, <<v>>   *)
(* is bound to v.  Reading an unbound local raises UnboundLocalError.       *)
(***************************************************************************)
Unbound == <<>>
Bound(v) == <<v>>
IsBound(l) == Len(l) = 1
ValueOf(l) == l[1]

(***************************************************************************)
(* Inputs of a run: the script, COMMENT_BODY, EVENT_NAME.                   *)
(***************************************************************************)
Scripts == {"gemini_code_review", "gemini_butler", "gemini_butler_both"}
ButlerScripts == {"gemini_butler", "gemini_butler_both"}

Events == {"issue_comment", "pull_request_review_comment", "push"}

RawComments ==
    { "/ask", "/ask \n", "/ask what does this function do?", "  /ask why?\n",
      "/ask what does /ask do?", "/asking", "/ask/ask",
      "/review", " /reviewer\n", "please /review",
      "hello", "" }

(***************************************************************************)
(* What the model returns.  A JSON object is a function from its keys to    *)
(* its values, as the dict json.loads builds; an inline comment is such an  *)
(* object with any of the keys path, line, body, side.                      *)
(***************************************************************************)
Absent == "<absent>"
NoLine == -1

\* the dict with exactly the keys that are given
Item(path, line, body, side) ==
    LET keys == (IF path = Absent THEN {} ELSE {"path"})
                \cup (IF line = NoLine THEN {} ELSE {"line"})
                \cup (IF body = Absent THEN {} ELSE {"body"})
                \cup (IF side = Absent THEN {} ELSE {"side"})
    IN [k \in keys |-> CASE k = "path" -> path
                         [] k = "line" -> line
                         [] k = "body" -> body
                         [] k = "side" -> side]

\* an element of "comments" that is not an object (a bare JSON string)
NonObject == [nondict |-> TRUE]
IsDict(item) == "nondict" \notin DOMAIN item

Items ==
    { \* records with a path, a line and a body
      Item("a.py", 3, "A", Absent), Item("a.py", 3, "B", Absent),
      Item("a.py", 4, "A", Absent), Item("b.py", 3, "A", Absent),
      Item("a.py", 3, "A", "LEFT"), Item("a.py", 3, "B", "RIGHT"),
      \* records that lack some of them
      Item("a.py", 3, Absent, Absent), Item("a.py", NoLine, "A", Absent),
      Item(Absent, 3, "A", Absent), Item(Absent, NoLine, Absent, Absent),
      Item("a.py", 3, Absent, "LEFT"),
      \* records in which one of them is empty or zero
      Item("a.py", 0, "A", Absent), Item("a.py", 3, "", Absent),
      Item("", 3, "A", Absent),
      NonObject }

RECURSIVE SeqsUpTo(_, _)
SeqsUpTo(S, n) ==
    IF n = 0 THEN {<<>>}
    ELSE LET shorter == SeqsUpTo(S, n - 1)
         IN shorter \cup { Append(q, x) : q \in shorter, x \in S }

CommentLists == SeqsUpTo(Items, MaxComments)

\* response.text as json.loads sees it
\*   not_json : json.loads raises JSONDecodeError
\*   array    : valid JSON whose top level is not an object
\*   object   : an object; summary and comments may be missing, and comments
\*              may be a number instead of an array
Doc(shape, summary, has_comments, is_list, items) ==
    [shape |-> shape, summary |-> summary, has_comments |-> has_comments,
     is_list |-> is_list, items |-> items]

JsonDocs ==
    { Doc("not_json", Absent, FALSE, FALSE, <<>>),
      Doc("array", Absent, FALSE, FALSE, <<>>),
      Doc("object", Absent, FALSE, FALSE, <<>>),
      Doc("object", "Looks fine.", FALSE, FALSE, <<>>),
      Doc("object", "Looks fine.", TRUE, FALSE, <<>>),
      Doc("object", Absent, TRUE, TRUE, <<Item("a.py", 3, "A", Absent)>>) }
    \cup { Doc("object", "Looks fine.", TRUE, TRUE, l) : l \in CommentLists }

ReplyTexts == {"It parses the header."}

DiffTexts == {"+print(1)"}

ModelErrors == {"503 UNAVAILABLE"}

(***************************************************************************)
(* json.loads and the data.get defaults (gemini_code_review.py 100-102,     *)
(* gemini_butler-both.py 135-137).  A result is [ok, exc, summary, is_list, *)
(* comments]; ok = FALSE stands for the exception whose text is exc.        *)
(***************************************************************************)
Raised(exc) ==
    [ok |-> FALSE, exc |-> exc, summary |-> "", is_list |-> TRUE, comments |-> <<>>]

Parsed(summary, is_list, comments) ==
    [ok |-> TRUE, exc |-> "", summary |-> summary, is_list |-> is_list,
     comments |-> comments]

json_loads_get(doc) ==
    IF doc.shape = "not_json"
    THEN Raised("Expecting value: line 1 column 1 (char 0)")
    ELSE IF doc.shape = "array"
    THEN Raised("'list' object has no attribute 'get'")
    ELSE Parsed(IF doc.summary = Absent THEN "Code Review" ELSE doc.summary,
                IF doc.has_comments THEN doc.is_list ELSE TRUE,
                IF doc.has_comments /\ doc.is_list THEN doc.items ELSE <<>>)

(***************************************************************************)
(* The merge of gemini_code_review.py, lines 104-126.                       *)
(***************************************************************************)
Separator == "\n\n---\n\n"

\* item.get(k): None (Absent, or NoLine for the line) when the key is missing
get(item, k) ==
    IF k \in DOMAIN item THEN item[k]
    ELSE IF k = "line" THEN NoLine ELSE Absent

\* not item.get(k): None, "" and 0 are false
Falsy(item, k) ==
    IF k = "line" THEN get(item, k) \in {NoLine, 0}
    ELSE get(item, k) \in {Absent, ""}

\* faulty variant: the body is not looked at
Discarded_without_body(item) ==
    Falsy(item, "path") \/ Falsy(item, "line")

\* line 112: if not path or not line or not body: continue
Discarded(item) ==
    Falsy(item, "path") \/ Falsy(item, "line") \/ Falsy(item, "body")

\* faulty variant: the key is the path alone
KeyOf_path_only(item) == <<get(item, "path")>>

\* line 115: key = (path, line)
KeyOf(item) == <<get(item, "path"), get(item, "line")>>

\* merged_map is a dict, which keeps the order in which its keys were
\* inserted: the sequence of its values in that order
KeyIn(key, merged_map) ==
    \E i \in 1..Len(merged_map) : KeyOf(merged_map[i]) = key

IndexOfKey(key, merged_map) ==
    CHOOSE i \in 1..Len(merged_map) : KeyOf(merged_map[i]) = key

\* faulty variant: the new body is put first
merge_existing_newest_first(existing_body, body) ==
    body \o Separator \o existing_body

\* lines 119-120
merge_existing(existing_body, body) == existing_body \o Separator \o body

\* one pass of the loop body, lines 108-123
merge_item(merged_map, item) ==
    IF Discarded(item) THEN merged_map
    ELSE IF KeyIn(KeyOf(item), merged_map)
         THEN LET i == IndexOfKey(KeyOf(item), merged_map)
              IN [merged_map EXCEPT
                    ![i] = [@ EXCEPT !["body"] =
                                         merge_existing(@, get(item, "body"))]]
         ELSE Append(merged_map, item)

RECURSIVE merge_loop(_, _)
merge_loop(merged_map, inline_comments) ==
    IF inline_comments = <<>> THEN merged_map
    ELSE merge_loop(merge_item(merged_map, Head(inline_comments)),
                    Tail(inline_comments))

\* lines 105-126: final_comments = list(merged_map.values())
final_comments_of(inline_comments) == merge_loop(<<>>, inline_comments)

\* the try block after the model call, lines 100-126
parse_and_merge(doc) ==
    LET data == json_loads_get(doc)
    IN IF ~data.ok THEN data
       ELSE IF ~data.is_list THEN Raised("'int' object is not iterable")
       ELSE IF \E i \in 1..Len(data.comments) : ~IsDict(data.comments[i])
       THEN Raised("'str' object has no attribute 'get'")
       ELSE Parsed(data.summary, TRUE, final_comments_of(data.comments))

\* lines 128-131: the except branch
error_summary(exc) == "Error parsing Gemini response: " \o exc

(***************************************************************************)
(* The state of a run.                                                      *)
(***************************************************************************)
VARIABLES
    script,         \* which of the three scripts runs
    raw_comment,    \* os.environ["COMMENT_BODY"]
    event_name,     \* os.environ["EVENT_NAME"]
    pc,             \* the external operation the run is about to make
    triggered,      \* "ask", "review" or ""
    user_question,  \* local, may be unbound
    prompt,         \* local, may be unbound
    response,       \* what generate_content returned, may be unbound
    reply_text,     \* local, may be unbound
    summary,        \* local, may be unbound
    comments,       \* inline_comments / final_comments handed to post_review
    url,            \* local of the plain post, may be unbound
    payload,        \* body of the plain post, may be unbound
    calls,          \* history of the external operations of the run
    exit_status     \* "running", "0", or the exception that ended the process

vars == <<script, raw_comment, event_name, pc, triggered, user_question, prompt,
          response, reply_text, summary, comments, url, payload, calls, exit_status>>

\* outcomes of requests.get / requests.post: the status of the response, or
\* no response at all (the call raises)
ConnectionErrors == {0}
FetchOutcomes == {200, 404} \cup ConnectionErrors
PostOutcomes == {201, 204, 422} \cup ConnectionErrors

\* response.raise_for_status()
RaisesForStatus(status) == status >= 400 /\ status < 600

Call(op, target, body, sent_comments, status) ==
    [op |-> op, url |-> target, body |-> body, comments |-> sent_comments,
     status |-> status]

ReviewsUrl == "pulls/{pr_number}/reviews"
IssueCommentsUrl == "issues/{pr_number}/comments"
RepliesUrl == "pulls/comments/{comment_id}/replies"

Init ==
    /\ script \in Scripts
    /\ raw_comment \in RawComments
    \* gemini_code_review.py does not read EVENT_NAME
    /\ event_name \in IF script = "gemini_code_review" THEN {"issue_comment"}
                      ELSE Events
    /\ pc = "start"
    /\ triggered = ""
    /\ user_question = Unbound
    /\ prompt = Unbound
    /\ response = Unbound
    /\ reply_text = Unbound
    /\ summary = Unbound
    /\ comments = <<>>
    /\ url = Unbound
    /\ payload = Unbound
    /\ calls = <<>>
    /\ exit_status = "running"

\* the process ends: return from main() (status "0") or an uncaught exception
Exits(status) ==
    /\ pc' = "done"
    /\ exit_status' = status

Continues(next) ==
    /\ pc' = next
    /\ exit_status' = exit_status

(***************************************************************************)
(* main() up to its first external operation.                               *)
(***************************************************************************)
\* faulty variant: the command is looked for anywhere in the comment
triggered_of_anywhere(raw) ==
    IF Contains(raw, "/ask") THEN "ask"
    ELSE IF Contains(raw, "/review") THEN "review"
    ELSE ""

\* gemini_butler.py 32-38, gemini_butler-both.py 67-73
triggered_of(raw) ==
    IF StartsWith(Strip(raw), "/ask") THEN "ask"
    ELSE IF StartsWith(Strip(raw), "/review") THEN "review"
    ELSE ""

\* gemini_butler.py 42, gemini_butler-both.py 77
user_question_of(raw) == Strip(Replace(raw, "/ask", ""))

ask_prompt(question) ==
    "You are a helpful coding assistant. The user said: " \o question

review_prompt(diff_text) == "Review this git diff. DIFF:\n" \o diff_text

main_start ==
    /\ pc = "start"
    /\ IF script = "gemini_code_review"
       THEN \* lines 51-53
            /\ IF StartsWith(Strip(raw_comment), "/review")
               THEN Continues("fetch")
               ELSE Exits("0")
            /\ UNCHANGED <<triggered, user_question, prompt>>
       ELSE /\ triggered' = triggered_of(raw_comment)
            /\ IF triggered' = "ask"
               THEN LET question == user_question_of(raw_comment)
                    IN /\ user_question' = Bound(question)
                       /\ IF question = ""
                          THEN Exits("0") /\ UNCHANGED prompt
                          ELSE /\ Continues("model")
                               /\ prompt' = Bound(ask_prompt(question))
               ELSE /\ UNCHANGED <<user_question, prompt>>
                    /\ IF triggered' = "review"
                       THEN Continues("fetch")
                       ELSE Exits("0")
    /\ UNCHANGED <<script, raw_comment, event_name, response, reply_text, summary,
                   comments, url, payload, calls>>

(***************************************************************************)
(* get_pr_diff and the try around it.                                       *)
(***************************************************************************)
get_pr_diff ==
    /\ pc = "fetch"
    /\ \E status \in FetchOutcomes, diff_text \in DiffTexts :
          /\ calls' = Append(calls, Call("GET", "pulls/{pr_number}", "", Unbound, status))
          /\ IF status \in ConnectionErrors \/ RaisesForStatus(status)
             THEN \* except Exception: print, return
                  Exits("0") /\ UNCHANGED prompt
             ELSE /\ Continues("model")
                  /\ prompt' = Bound(review_prompt(diff_text))
    /\ UNCHANGED <<script, raw_comment, event_name, triggered, user_question,
                   response, reply_text, summary, comments, url, payload>>

(***************************************************************************)
(* The "LOGIC SWITCH" that chooses the endpoint of the plain reply          *)
(* (gemini_butler.py 92-108, gemini_butler-both.py 159-202).  The result    *)
(* is [exit, pc, url, payload]: exit = "" when the run goes on to pc.       *)
(***************************************************************************)
Goes(next, target, body) ==
    [exit |-> "", pc |-> next, url |-> target, payload |-> body]

Ends(status) ==
    [exit |-> status, pc |-> "done", url |-> Unbound, payload |-> Unbound]

butler_dispatch(event, trig, question, reply) ==
    IF event = "issue_comment" \/ trig = "/review"
    THEN IF ~IsBound(question) \/ ~IsBound(reply)
         THEN Ends("UnboundLocalError")
         ELSE Goes("post_plain", Bound(IssueCommentsUrl),
                   Bound("> " \o ValueOf(question)
                         \o "\n\n**Gemini Code Review:**\n" \o ValueOf(reply)))
    ELSE IF event = "pull_request_review_comment"
    THEN IF ~IsBound(reply)
         THEN Ends("UnboundLocalError")
         ELSE Goes("post_plain", Bound(RepliesUrl),
                   Bound("**Gemini:**\n" \o ValueOf(reply)))
    ELSE Ends("0")

\* faulty variant: the command is compared with "review", the value that
\* triggered takes, so that the second model call is reached
butler_both_dispatch_second_call(event, trig, reply) ==
    IF event = "issue_comment" \/ trig = "review"
    THEN IF event = "issue_comment"
         THEN IF ~IsBound(reply)
              THEN Ends("UnboundLocalError")
              ELSE Goes("post_plain", Bound(IssueCommentsUrl),
                        Bound("**Gemini Code Review:**\n" \o ValueOf(reply)))
         ELSE Goes("model_again", Unbound, Unbound)
    ELSE IF event = "pull_request_review_comment"
    THEN IF ~IsBound(reply)
         THEN Ends("UnboundLocalError")
         ELSE Goes("post_plain", Bound(RepliesUrl),
                   Bound("**Gemini:**\n" \o ValueOf(reply)))
    ELSE Ends("0")

butler_both_dispatch(event, trig, reply) ==
    IF event = "issue_comment" \/ trig = "/review"
    THEN IF event = "issue_comment"
         THEN IF ~IsBound(reply)
              THEN Ends("UnboundLocalError")
              ELSE Goes("post_plain", Bound(IssueCommentsUrl),
                        Bound("**Gemini Code Review:**\n" \o ValueOf(reply)))
         ELSE \* lines 168-176: the model is asked again, in JSON mode
              Goes("model_again", Unbound, Unbound)
    ELSE IF event = "pull_request_review_comment"
    THEN IF ~IsBound(reply)
         THEN Ends("UnboundLocalError")
         ELSE Goes("post_plain", Bound(RepliesUrl),
                   Bound("**Gemini:**\n" \o ValueOf(reply)))
    ELSE Ends("0")

Dispatches(d) ==
    /\ pc' = d.pc
    /\ exit_status' = IF d.exit = "" THEN exit_status ELSE d.exit
    /\ url' = d.url
    /\ payload' = d.payload

(***************************************************************************)
(* client.models.generate_content and what follows it up to the next        *)
(* external operation.                                                      *)
(***************************************************************************)
NoDoc == Doc("not_json", Absent, FALSE, FALSE, <<>>)

ModelResponse(ok, exc, text, doc) ==
    [ok |-> ok, exc |-> exc, text |-> text, doc |-> doc]

\* json_read: response.text goes through json.loads
ModelResponses(json_read) ==
    { ModelResponse(FALSE, e, "", NoDoc) : e \in ModelErrors }
    \cup IF json_read
         THEN { ModelResponse(TRUE, "", "", d) : d \in JsonDocs }
         ELSE { ModelResponse(TRUE, "", t, NoDoc) : t \in ReplyTexts }

\* faulty variant: an exception in the try block ends the run
code_review_after_model_aborting(returned) ==
    /\ LET result == IF returned.ok THEN parse_and_merge(returned.doc)
                     ELSE Raised(returned.exc)
       IN IF result.ok
          THEN /\ summary' = Bound(result.summary)
               /\ comments' = result.comments
               /\ Continues("post_review")
          ELSE /\ Exits("0")
               /\ UNCHANGED <<summary, comments>>
    /\ UNCHANGED <<reply_text, url, payload>>

\* gemini_code_review.py 89-131
code_review_after_model(returned) ==
    /\ LET result == IF returned.ok THEN parse_and_merge(returned.doc)
                     ELSE Raised(returned.exc)
       IN IF result.ok
          THEN /\ summary' = Bound(result.summary)
               /\ comments' = result.comments
          ELSE /\ summary' = Bound(error_summary(result.exc))
               /\ comments' = <<>>
    /\ Continues("post_review")
    /\ UNCHANGED <<reply_text, url, payload>>

\* gemini_butler.py 74-108
butler_after_model(returned) ==
    /\ IF ~returned.ok
       THEN Exits("0") /\ UNCHANGED <<reply_text, url, payload>>
       ELSE /\ reply_text' = Bound(returned.text)
            /\ Dispatches(butler_dispatch(event_name, triggered, user_question,
                                          reply_text'))
    /\ UNCHANGED <<summary, comments>>

\* gemini_butler-both.py 125-150, and 159-202 in ask mode
butler_both_after_model(returned) ==
    IF triggered = "review"
    THEN LET data == IF returned.ok THEN json_loads_get(returned.doc)
                     ELSE Raised(returned.exc)
         IN \* a comments value without len() raises in post_review, line 34
            IF data.ok /\ data.is_list
            THEN /\ summary' = Bound(data.summary)
                 /\ comments' = data.comments
                 /\ Continues("post_review")
                 /\ UNCHANGED <<reply_text, url, payload>>
            ELSE /\ Exits("0")
                 /\ UNCHANGED <<summary, comments, reply_text, url, payload>>
    ELSE /\ IF ~returned.ok
            THEN Exits("0") /\ UNCHANGED <<reply_text, url, payload>>
            ELSE /\ reply_text' = Bound(returned.text)
                 /\ Dispatches(butler_both_dispatch(event_name, triggered,
                                                    reply_text'))
         /\ UNCHANGED <<summary, comments>>

\* gemini_butler-both.py 168-190: the second call, whose except degrades
butler_both_after_model_again(returned) ==
    /\ LET data == IF returned.ok THEN json_loads_get(returned.doc)
                   ELSE Raised(returned.exc)
       IN IF data.ok
          THEN /\ summary' = Bound(data.summary)
               /\ comments' = data.comments
               /\ IF data.is_list THEN Continues("post_review_again")
                  ELSE Exits("TypeError")
          ELSE /\ summary' = Bound(error_summary(data.exc))
               /\ comments' = <<>>
               /\ Continues("post_review_again")
    /\ UNCHANGED <<reply_text, url, payload>>

\* whether this call's response.text is read as JSON
reads_json ==
    \/ script = "gemini_code_review"
    \/ script = "gemini_butler_both" /\ (triggered = "review" \/ pc = "model_again")

generate_content ==
    /\ pc \in {"model", "model_again"}
    /\ \E returned \in ModelResponses(reads_json) :
          /\ calls' = Append(calls,
                             Call("generate_content", "gemini-2.5-flash",
                                  ValueOf(prompt), Unbound,
                                  IF returned.ok THEN 200 ELSE 0))
          /\ response' = Bound(returned)
          /\ IF script = "gemini_code_review" THEN code_review_after_model(returned)
             ELSE IF script = "gemini_butler" THEN butler_after_model(returned)
             ELSE IF pc = "model" THEN butler_both_after_model(returned)
             ELSE butler_both_after_model_again(returned)
    /\ UNCHANGED <<script, raw_comment, event_name, triggered, user_question,
                   prompt>>

(***************************************************************************)
(* post_review (gemini_code_review.py 17-39, gemini_butler-both.py 17-48).  *)
(***************************************************************************)
\* the emoji of each heading is written as its GitHub shortcode
review_heading ==
    IF script = "gemini_code_review"
    THEN "## :zap: Gemini 2.5 Flash Review\n\n"
    ELSE "## :robot: Gemini Code Review Summary\n\n"

\* payload["body"]
review_body(general_summary) == review_heading \o general_summary

\* the first POST of post_review
review_request(general_summary, inline, status) ==
    Call("POST", ReviewsUrl, review_body(general_summary), Bound(inline), status)

\* the second POST of post_review
fallback_request(general_summary, inline, status) ==
    Call("POST", IssueCommentsUrl, review_body(general_summary), Unbound, status)

\* faulty variant: only a server error counts as a rejection
review_rejected_server_error(status) == status >= 500

\* if r.status_code not in [200, 201]
review_rejected(status) == status \notin {200, 201}

\* an exception out of post_review: caught by the try of gemini_butler-both.py
\* line 125 at its first call site, uncaught everywhere else
post_review_raises ==
    /\ IF script = "gemini_butler_both" /\ pc \in {"post_review", "post_fallback"}
       THEN Exits("0")
       ELSE Exits("ConnectionError")
    /\ UNCHANGED <<url, payload>>

\* what main() does once post_review has returned
post_review_returns ==
    IF script = "gemini_code_review"
    THEN Exits("0") /\ UNCHANGED <<url, payload>>
    ELSE IF pc \in {"post_review", "post_fallback"}
    THEN Dispatches(butler_both_dispatch(event_name, triggered, reply_text))
    ELSE \* line 204 reads url, which line 168's branch never assigned
         Exits("UnboundLocalError") /\ UNCHANGED <<url, payload>>

post_review ==
    /\ pc \in {"post_review", "post_review_again"}
    /\ \E status \in PostOutcomes :
          /\ calls' = Append(calls,
                             review_request(ValueOf(summary), comments, status))
          /\ IF status \in ConnectionErrors THEN post_review_raises
             ELSE IF review_rejected(status)
             THEN /\ Continues(IF pc = "post_review" THEN "post_fallback"
                               ELSE "post_fallback_again")
                  /\ UNCHANGED <<url, payload>>
             ELSE post_review_returns
    /\ UNCHANGED <<script, raw_comment, event_name, triggered, user_question,
                   prompt, response, reply_text, summary, comments>>

post_review_fallback ==
    /\ pc \in {"post_fallback", "post_fallback_again"}
    /\ \E status \in PostOutcomes :
          /\ calls' = Append(calls,
                             fallback_request(ValueOf(summary), comments, status))
          /\ IF status \in ConnectionErrors THEN post_review_raises
             ELSE post_review_returns
    /\ UNCHANGED <<script, raw_comment, event_name, triggered, user_question,
                   prompt, response, reply_text, summary, comments>>

(***************************************************************************)
(* The plain reply (gemini_butler.py 110-119, gemini_butler-both.py         *)
(* 204-213).                                                                *)
(***************************************************************************)
requests_post ==
    /\ pc = "post_plain"
    /\ \E status \in PostOutcomes :
          /\ calls' = Append(calls,
                             Call("POST", ValueOf(url), ValueOf(payload), Unbound,
                                  status))
          /\ IF status \in ConnectionErrors THEN Exits("ConnectionError")
             ELSE IF RaisesForStatus(status) THEN Exits("HTTPError")
             ELSE Exits("0")
    /\ UNCHANGED <<script, raw_comment, event_name, triggered, user_question,
                   prompt, response, reply_text, summary, comments, url, payload>>

Next ==
    \/ main_start
    \/ get_pr_diff
    \/ generate_content
    \/ post_review
    \/ post_review_fallback
    \/ requests_post

Spec == Init /\ [][Next]_vars

(***************************************************************************)
(* Vocabulary of the properties.                                            *)
(***************************************************************************)
\* the run is gemini_code_review.py and the model has answered
Answered ==
    /\ script = "gemini_code_review"
    /\ IsBound(response)
    /\ ValueOf(response).ok

AnswerDoc == ValueOf(response).doc

\* the answer is an object whose "comments" is an array of objects
CandidateList ==
    /\ Answered
    /\ AnswerDoc.shape = "object"
    /\ AnswerDoc.has_comments
    /\ AnswerDoc.is_list
    /\ \A i \in 1..Len(AnswerDoc.items) : IsDict(AnswerDoc.items[i])

Candidates == AnswerDoc.items

HasPair(item) == {"path", "line"} \subseteq DOMAIN item

PairOf(item) == <<item["path"], item["line"]>>

\* a record that carries a path, a line and a body
HasAllFields(item) == {"path", "line", "body"} \subseteq DOMAIN item

\* a record that carries a non-empty path, a non-zero line and a non-empty body
Complete(item) ==
    /\ HasAllFields(item)
    /\ item["path"] # ""
    /\ item["line"] # 0
    /\ item["body"] # ""

Pairs(list) ==
    { PairOf(list[i]) : i \in { j \in 1..Len(list) : HasPair(list[j]) } }

OnePerPair(list) ==
    \A i, j \in 1..Len(list) :
        (HasPair(list[i]) /\ HasPair(list[j]) /\ PairOf(list[i]) = PairOf(list[j]))
            => i = j

CompleteOnes(list) == SelectSeq(list, LAMBDA item : Complete(item))

\* the records of list that carry the pair, in the order of the list
SharedBy(list, pair) ==
    SelectSeq(list, LAMBDA item : HasPair(item) /\ PairOf(item) = pair)

RECURSIVE Joined(_)
Joined(bodies) ==
    IF Len(bodies) = 0 THEN ""
    ELSE IF Len(bodies) = 1 THEN bodies[1]
    ELSE bodies[1] \o "\n\n---\n\n" \o Joined(Tail(bodies))

BodiesOf(group) ==
    LET with_body == SelectSeq(group, LAMBDA item : "body" \in DOMAIN item)
    IN [i \in 1..Len(with_body) |-> with_body[i]["body"]]

\* the merged list holds exactly one record for the group: the first
\* record of the group, with the joined bodies as its body
MergedInto(group, list) ==
    /\ Cardinality({ i \in 1..Len(list) : PairOf(list[i]) = PairOf(group[1]) }) = 1
    /\ \E i \in 1..Len(list) :
          /\ DOMAIN list[i] = DOMAIN group[1]
          /\ \A k \in DOMAIN list[i] \ {"body"} : list[i][k] = group[1][k]
          /\ "body" \in DOMAIN list[i]
          /\ list[i]["body"] = Joined(BodiesOf(group))

(***************************************************************************)
(* C1, as stated: the merged list holds at most one record per (path,       *)
(* line) pair, and as many distinct pairs as the input list holds.          *)
(***************************************************************************)
C1_AsStated ==
    CandidateList =>
        /\ OnePerPair(comments)
        /\ Cardinality(Pairs(comments)) = Cardinality(Pairs(Candidates))

(***************************************************************************)
(* C1, amended: the merged list holds at most one record per (path, line)   *)
(* pair, and as many distinct pairs as there are among the input records    *)
(* that carry a non-empty path, a non-zero line and a non-empty body.       *)
(***************************************************************************)
C1_DedupCount ==
    CandidateList =>
        /\ \A i \in 1..Len(comments) : HasPair(comments[i])
        /\ OnePerPair(comments)
        /\ Cardinality(Pairs(comments))
              = Cardinality(Pairs(CompleteOnes(Candidates)))

C1_Witness ==
    /\ CandidateList
    /\ Len(Candidates) = 2
    /\ Complete(Candidates[1]) /\ Complete(Candidates[2])
    /\ PairOf(Candidates[1]) = PairOf(Candidates[2])
    /\ Len(comments) = 1

(***************************************************************************)
(* C2, as stated: whenever two or more candidate records share a (path,     *)
(* line) pair, the merged list holds one record for the pair, whose body    *)
(* is their bodies joined in order by "\n\n---\n\n" and whose other fields  *)
(* are those of the first of them.                                          *)
(***************************************************************************)
C2_AsStated ==
    CandidateList =>
        \A pair \in Pairs(Candidates) :
            Len(SharedBy(Candidates, pair)) >= 2
                => MergedInto(SharedBy(Candidates, pair), comments)

(***************************************************************************)
(* C2, amended: the same, for two or more candidate records that each       *)
(* carry a non-empty path, a non-zero line and a non-empty body.            *)
(***************************************************************************)
C2_MergedBody ==
    CandidateList =>
        \A pair \in Pairs(CompleteOnes(Candidates)) :
            Len(SharedBy(CompleteOnes(Candidates), pair)) >= 2
                => MergedInto(SharedBy(CompleteOnes(Candidates), pair), comments)

C2_Witness ==
    /\ CandidateList
    /\ Len(Candidates) = 2
    /\ Complete(Candidates[1]) /\ Complete(Candidates[2])
    /\ PairOf(Candidates[1]) = PairOf(Candidates[2])
    /\ Candidates[1]["body"] = "A" /\ Candidates[2]["body"] = "B"
    /\ "side" \in DOMAIN Candidates[1]
    /\ comments = <<[Candidates[1] EXCEPT !["body"] = "A\n\n---\n\nB"]>>

(***************************************************************************)
(* C3: a candidate record without a path, a line or a body is dropped by    *)
(* the merge: no error is raised, every merged record carries the three     *)
(* fields, and the merged list is the one the input gives without such      *)
(* records.                                                                 *)
(***************************************************************************)
C3_IncompleteDropped ==
    CandidateList =>
        /\ IsBound(summary)
        /\ ~Contains(ValueOf(summary), "Error")
        /\ \A i \in 1..Len(comments) : HasAllFields(comments[i])
        /\ comments = final_comments_of(
                          SelectSeq(Candidates, LAMBDA item : HasAllFields(item)))

C3_Witness ==
    /\ CandidateList
    /\ \E i \in 1..Len(Candidates) : ~HasAllFields(Candidates[i])
    /\ \E i \in 1..Len(Candidates) : HasAllFields(Candidates[i])
    /\ Len(comments) = 1

(***************************************************************************)
(* Vocabulary of the properties about the external operations.              *)
(***************************************************************************)
Ops(kind) == { i \in 1..Len(calls) : calls[i].op = kind }

IsReviewPost(call) == call.op = "POST" /\ call.url = ReviewsUrl

IsFallbackPost(call) ==
    call.op = "POST" /\ call.url = IssueCommentsUrl /\ call.comments = Unbound

\* the call got no response, or a response that is an HTTP error
Failed(call) == call.status = 0 \/ call.status >= 400

Abnormal == exit_status \notin {"running", "0"}

\* json.loads or the reading of the parsed value raises on the answer
Malformed(doc) ==
    \/ doc.shape \in {"not_json", "array"}
    \/ /\ doc.shape = "object"
       /\ doc.has_comments
       /\ \/ ~doc.is_list
          \/ \E i \in 1..Len(doc.items) : "nondict" \in DOMAIN doc.items[i]

ParseExceptionTexts ==
    { "Expecting value: line 1 column 1 (char 0)",
      "'list' object has no attribute 'get'",
      "'int' object is not iterable",
      "'str' object has no attribute 'get'" }

(***************************************************************************)
(* C4: in gemini_code_review.py an answer that is not valid JSON, or not    *)
(* of the expected shape, does not end the run: the comment list is empty,  *)
(* the summary holds the word "Error" and the text of the exception, and    *)
(* the review with that summary and no comments is what post_review is      *)
(* about to submit or has submitted.                                        *)
(***************************************************************************)
C4_ParseFailureDegrades ==
    (Answered /\ Malformed(AnswerDoc)) =>
        /\ IsBound(summary)
        /\ comments = <<>>
        /\ Contains(ValueOf(summary), "Error")
        /\ \E text \in ParseExceptionTexts : Contains(ValueOf(summary), text)
        /\ \/ pc = "post_review"
           \/ /\ Len(calls) >= 3
              /\ IsReviewPost(calls[3])
              /\ calls[3].comments = Bound(<<>>)
              /\ Contains(calls[3].body, ValueOf(summary))

C4_Witness ==
    /\ Answered
    /\ AnswerDoc.shape = "not_json"
    /\ Len(calls) = 3
    /\ IsReviewPost(calls[3])
    /\ calls[3].status = 201
    /\ exit_status = "0"

(***************************************************************************)
(* C5: once the POST of the formal review has returned a status that is     *)
(* not a success, the next operation of the run is one POST to the issue    *)
(* comments, with the same body and no inline comments, and it is the last  *)
(* operation; the formal review is posted once.                             *)
(***************************************************************************)
C5_SingleFallback ==
    \A i \in 1..Len(calls) :
        (IsReviewPost(calls[i]) /\ calls[i].status >= 300) =>
            /\ \A j \in 1..Len(calls) : IsReviewPost(calls[j]) => j = i
            /\ IF i = Len(calls)
               THEN pc \in {"post_fallback", "post_fallback_again"}
               ELSE /\ Len(calls) = i + 1
                    /\ IsFallbackPost(calls[i + 1])
                    /\ calls[i + 1].body = calls[i].body
                    /\ Contains(calls[i + 1].body, ValueOf(summary))
                    /\ pc = "done"

C5_Witness ==
    /\ Len(calls) = 4
    /\ IsReviewPost(calls[3])
    /\ calls[3].status = 422
    /\ Len(ValueOf(calls[3].comments)) = 2
    /\ IsFallbackPost(calls[4])

(***************************************************************************)
(* C6, as stated: in a run whose diff fetch or whose model call has failed  *)
(* nothing is posted: GitHub accepts no POST of the run.                    *)
(***************************************************************************)
Accepted == { p \in Ops("POST") : calls[p].status \in 200..299 }

C6_NothingPostedAfterFailure ==
    (\E i \in Ops("GET") \cup Ops("generate_content") : Failed(calls[i]))
        => Accepted = {}

(***************************************************************************)
(* C7, as stated: the process ends abnormally only when its last POST       *)
(* raised, and ends with status 0 once a POST has succeeded.                *)
(***************************************************************************)
C7_AbnormalOnlyFromPost ==
    /\ Abnormal =>
          /\ Len(calls) > 0
          /\ calls[Len(calls)].op = "POST"
          /\ Failed(calls[Len(calls)])
    /\ (pc = "done" /\ Len(calls) > 0 /\ calls[Len(calls)].op = "POST"
            /\ ~Failed(calls[Len(calls)]))
          => exit_status = "0"

(***************************************************************************)
(* C8, as stated: a run whose raw comment is "/ask", or does not start      *)
(* with a command the script recognises, makes no external operation.       *)
(***************************************************************************)
Recognised ==
    IF script = "gemini_code_review" THEN {"/review"} ELSE {"/ask", "/review"}

C8_AsStated ==
    (\/ raw_comment = "/ask"
     \/ \A command \in Recognised : ~StartsWith(raw_comment, command))
        => calls = <<>>

\* the run is over after main's first step, with no external operation
EndsEarly ==
    /\ calls = <<>>
    /\ pc \in {"start", "done"}
    /\ ~Abnormal

(***************************************************************************)
(* C8, amended: a run whose raw comment is "/ask", or whose raw comment     *)
(* without its surrounding whitespace does not start with a command the     *)
(* script recognises, ends normally at once, without any external           *)
(* operation.                                                               *)
(***************************************************************************)
C8_NoCommandNoCalls ==
    (\/ raw_comment = "/ask"
     \/ \A command \in Recognised : ~StartsWith(Strip(raw_comment), command))
        => EndsEarly

C8_Witness ==
    /\ script \in ButlerScripts
    /\ raw_comment = "/ask"
    /\ pc = "done"
    /\ exit_status = "0"
    /\ calls = <<>>

(***************************************************************************)
(* C9, as stated: in the butler scripts the question taken from a raw       *)
(* comment that starts with /ask is the raw comment without that leading    *)
(* /ask, trimmed.                                                           *)
(***************************************************************************)
C9_QuestionIsRestOfComment ==
    (script \in ButlerScripts /\ StartsWith(raw_comment, "/ask") /\ pc # "start")
        => /\ IsBound(user_question)
           /\ ValueOf(user_question)
                 = Strip(SubSeq(raw_comment, Len("/ask") + 1, Len(raw_comment)))

(***************************************************************************)
(* C10: the external operations of a run come in the order diff fetch,      *)
(* model call, posts: at most one model call, in review mode only after a   *)
(* diff fetch that succeeded; no POST before the model call; and at most    *)
(* two POSTs, the second being the fallback of the first.                   *)
(***************************************************************************)
ReviewMode == script = "gemini_code_review" \/ triggered = "review"

C10_FetchModelPost ==
    /\ Cardinality(Ops("generate_content")) <= 1
    /\ Cardinality(Ops("GET")) <= 1
    /\ \A g \in Ops("GET") : \A m \in Ops("generate_content") : g < m
    /\ \A m \in Ops("generate_content") :
          ReviewMode => \E g \in Ops("GET") : g < m /\ ~Failed(calls[g])
    /\ \A p \in Ops("POST") : \E m \in Ops("generate_content") : m < p
    /\ Cardinality(Ops("POST")) <= 2
    /\ \A p, q \in Ops("POST") :
          p < q => /\ q = p + 1
                   /\ IsReviewPost(calls[p])
                   /\ IsFallbackPost(calls[q])

C10_Witness ==
    /\ script = "gemini_butler_both"
    /\ Len(calls) = 4
    /\ calls[1].op = "GET"
    /\ calls[2].op = "generate_content"
    /\ IsReviewPost(calls[3])
    /\ IsFallbackPost(calls[4])

====
